---- MODULE Spec2Model ----
(***************************************************************************)
(* Model of src/app.py: the memoized DuckDB connection (get_connection),   *)
(* the query gateway (run_query), the reset controller (reset_database)    *)
(* and the module-level render flow of the Streamlit page.                 *)
(*                                                                         *)
(* The SQL engine is an external collaborator.  It is modelled by what the *)
(* program observes of it: a catalog of tables with rows, statements that  *)
(* succeed or raise a duckdb.Error subclass, and handles that are open or  *)
(* closed.  Failures of the environment (the file cannot be deleted, the   *)
(* file cannot be opened, the backup cannot be imported) are inputs.       *)
(***************************************************************************)
EXTENDS Naturals, Sequences, FiniteSets

\* ------------------------------------------------------------------ bounds
\* Number of handles duckdb.connect may hand out in one behaviour.
MaxHandles == 4

\* ------------------------------------------------------------- value space
NoHandle == 0

\* A table name is the sequence of words its text lexes into when it is
\* written into a statement without quotes.
Customers == <<"customers">>
Orders == <<"orders">>
MyTable == <<"my", "table">>

Names == {Customers, Orders, MyTable}

\* ORDER BY table_name of the listing query (src/app.py:187).
TableOrder == <<Customers, MyTable, Orders>>

Absent == [present |-> FALSE, rows |-> {}]

Table(rows) == [present |-> TRUE, rows |-> rows]

\* A database file that duckdb.connect has just created.
EmptyDb == [t \in Names |-> Absent]

\* The content of the backup_data export read by IMPORT DATABASE.
CanonicalDb == [t \in Names |->
                  IF t = Customers THEN Table({501})
                  ELSE IF t = Orders THEN Table({1, 2})
                  ELSE Absent]

\* Exceptions.  duckdb.Error is the base class of every exception the engine
\* raises; OSError is raised by os.remove.
DuckdbErrors == {"IOException", "ConnectionException", "ParserException",
                 "CatalogException", "ConstraintException",
                 "InvalidInputException"}

\* Environment faults a call can meet.
QueryFaults == {"none", "connect"}
ResetFaults == {"none", "connect", "remove", "import"}

\* ------------------------------------------------------------ SQL inputs
Stmt(op, t, r) == [op |-> op, t |-> t, r |-> r]

\* The catalog of example_queries reduced to its statement kinds, plus a
\* CREATE TABLE with a quoted name and a malformed text.
Stmts == { Stmt("select", Customers, 0), Stmt("select", Orders, 0),
           Stmt("count", Orders, 0),
           Stmt("insert", Customers, 502), Stmt("delete", Customers, 501),
           Stmt("drop", Customers, 0), Stmt("drop", Orders, 0),
           Stmt("create", MyTable, 0),
           Stmt("bad", Customers, 0) }

DropAll == <<Stmt("drop", Customers, 0), Stmt("drop", Orders, 0)>>

\* Texts the editor can hold: one statement, or several separated by ';'.
Scripts == {<<s>> : s \in Stmts} \cup {DropAll}

\* ------------------------------------------------------------------ state
VARIABLES
  cache,        \* the handle memoized by st.cache_resource, NoHandle if none
  live,         \* handles opened and not closed
  opened,       \* number of handles duckdb.connect has handed out
  fileExists,   \* os.path.exists("sample.db")
  db,           \* the catalog stored in the database
  pc,           \* position of the script run in the module-level flow
  user_query,   \* text held by the editor
  admin,        \* the Reset Database button of the Admin Panel was clicked
  forced,       \* this script run was started by st.rerun()
  result,       \* result of run_query(user_query)
  caption,      \* the st.info row-count caption
  chart,        \* what dynamic_visualization rendered
  tables,       \* result of the table listing query
  SQL_QUERY,    \* the batched row-count text
  table_counts, \* result of run_query(SQL_QUERY)
  columns,      \* tables whose column query returned rows
  st_error,     \* exceptions reported with st.error in this script run
  exc,          \* the uncaught exception that ended the script run
  last,         \* record of the last run_query / reset_database call
  prev          \* what the call before the last one was

world == <<cache, live, opened, fileExists, db>>
page == <<pc, user_query, admin, forced, result, caption, chart, tables,
          SQL_QUERY, table_counts, columns, st_error, exc>>
vars == <<cache, live, opened, fileExists, db, pc, user_query, admin, forced,
          result, caption, chart, tables, SQL_QUERY, table_counts, columns,
          st_error,
          exc, last, prev>>

\* The process state the functions of the module read and write.
W == [cache |-> cache, live |-> live, opened |-> opened,
      fileExists |-> fileExists, db |-> db]

\* ----------------------------------------------------------------- engine
\* issubclass(e, duckdb.Error): the except clauses at src/app.py:46 and :57.
IsDuckdbError(e) == e \in DuckdbErrors

Min(S) == CHOOSE x \in S : \A y \in S : x <= y

\* Rows of a set in ascending order.
RECURSIVE SortedRows(_)
SortedRows(S) ==
  IF S = {} THEN <<>> ELSE <<Min(S)>> \o SortedRows(S \ {Min(S)})

\* An unquoted identifier names a table when it is one word and the catalog
\* holds a table of that name.
Resolves(d, id) == id \in Names /\ d[id].present

\* SELECT table_name FROM information_schema.tables order by table_name;
ListTables(d) == SelectSeq(TableOrder, LAMBDA t : d[t].present)

\* The batched row count: one row per select of the UNION ALL, in order.
CountRows(d, parts) ==
  [i \in 1..Len(parts) |->
     [name |-> parts[i].label, count |-> Cardinality(d[parts[i].from].rows)]]

\* One statement against the catalog d: the catalog after it, the rows it
\* returns and the exception it raises.
ExecStmt(d, s) ==
  IF s.op = "bad" THEN
    [db |-> d, rows |-> <<>>, raised |-> "ParserException"]
  ELSE IF s.op = "tables" THEN
    [db |-> d, rows |-> ListTables(d), raised |-> "none"]
  ELSE IF s.op = "columns" THEN
    [db |-> d, rows |-> IF d[s.t].present THEN <<1>> ELSE <<>>,
     raised |-> "none"]
  ELSE IF s.op = "counts" THEN
    IF \A i \in 1..Len(s.parts) : Resolves(d, s.parts[i].from)
    THEN [db |-> d, rows |-> CountRows(d, s.parts), raised |-> "none"]
    ELSE [db |-> d, rows |-> <<>>, raised |-> "CatalogException"]
  ELSE IF s.op = "create" THEN
    IF d[s.t].present
    THEN [db |-> d, rows |-> <<>>, raised |-> "CatalogException"]
    ELSE [db |-> [d EXCEPT ![s.t] = Table({})], rows |-> <<>>, raised |-> "none"]
  ELSE IF ~d[s.t].present THEN
    [db |-> d, rows |-> <<>>, raised |-> "CatalogException"]
  ELSE IF s.op = "select" THEN
    [db |-> d, rows |-> SortedRows(d[s.t].rows), raised |-> "none"]
  ELSE IF s.op = "count" THEN
    [db |-> d, rows |-> <<Cardinality(d[s.t].rows)>>, raised |-> "none"]
  ELSE IF s.op = "insert" THEN
    IF s.r \in d[s.t].rows
    THEN [db |-> d, rows |-> <<>>, raised |-> "ConstraintException"]
    ELSE [db |-> [d EXCEPT ![s.t].rows = @ \cup {s.r}],
          rows |-> <<1>>, raised |-> "none"]
  ELSE IF s.op = "delete" THEN
    [db |-> [d EXCEPT ![s.t].rows = @ \ {s.r}],
     rows |-> <<Cardinality(d[s.t].rows \cap {s.r})>>, raised |-> "none"]
  ELSE \* drop
    [db |-> [d EXCEPT ![s.t] = Absent], rows |-> <<>>, raised |-> "none"]

\* conn.execute(text).fetchdf() for a text of several statements: they run
\* in order under autocommit, the first failure ends the call, and the rows
\* are those of the last statement.
RECURSIVE ExecScript(_, _)
ExecScript(d, script) ==
  IF Len(script) = 0 THEN
    [db |-> d, rows |-> <<>>, raised |-> "InvalidInputException"]
  ELSE LET r == ExecStmt(d, Head(script)) IN
    IF r.raised # "none" \/ Len(script) = 1 THEN r
    ELSE ExecScript(r.db, Tail(script))


\* IMPORT DATABASE 'backup_data': the export's CREATE TABLE statements, then
\* its COPY statements.  A table of the export that already exists fails it.
ImportDatabase(d) ==
  IF \E t \in Names : CanonicalDb[t].present /\ d[t].present
  THEN [db |-> d, raised |-> "CatalogException"]
  ELSE [db |-> [t \in Names |-> IF CanonicalDb[t].present
                                THEN CanonicalDb[t] ELSE d[t]],
        raised |-> "none"]

\* conn.close(): closes the handle; closing a closed handle does nothing.
\* The content of a file that was unlinked while open goes with its last
\* handle.
Close(w, conn) ==
  [w EXCEPT !.live = @ \ {conn},
            !.db = IF w.fileExists \/ w.live \ {conn} # {} THEN @ ELSE EmptyDb]

\* conn.execute(text).fetchdf() on a handle.
Execute(w, conn, script) ==
  IF conn \notin w.live THEN
    [w |-> w, rows |-> <<>>, raised |-> "ConnectionException"]
  ELSE LET r == ExecScript(w.db, script) IN
    [w |-> [w EXCEPT !.db = r.db], rows |-> r.rows, raised |-> r.raised]

\* --------------------------------------------------- the batched text
Kw(word) == [k |-> "kw", v |-> <<word>>]
Str(name) == [k |-> "str", v |-> name]

\* A table name written into the text without quotes: its words.
Unquoted(name) == [i \in 1..Len(name) |-> [k |-> "id", v |-> <<name[i]>>]]

\* The f-string appended per table at src/app.py:212-214.
Segment(name) ==
  <<Kw("select"), Str(name), Kw("count"), Kw("from")>>
    \o Unquoted(name) \o <<Kw("UNION ALL")>>

RECURSIVE Concat(_)
Concat(names) ==
  IF Len(names) = 0 THEN <<>>
  ELSE Segment(Head(names)) \o Concat(Tail(names))

\* SQL_QUERY[:-11]: drops the last " UNION ALL "; the empty text stays empty.
StripLast(text) ==
  IF Len(text) = 0 THEN text ELSE SubSeq(text, 1, Len(text) - 1)

\* src/app.py:210-215.
BuildCounts(names) == StripLast(Concat(names))

\* The engine's parse of a row-count text: selects joined by UNION ALL, each
\* reading from one identifier.
RECURSIVE ParseSelects(_)
ParseSelects(toks) ==
  IF /\ Len(toks) >= 5
     /\ toks[1] = Kw("select") /\ toks[2].k = "str"
     /\ toks[3] = Kw("count") /\ toks[4] = Kw("from")
     /\ toks[5].k = "id"
  THEN LET part == [label |-> toks[2].v, from |-> toks[5].v] IN
    IF Len(toks) = 5 THEN [ok |-> TRUE, parts |-> <<part>>]
    ELSE IF toks[6] = Kw("UNION ALL") THEN
      LET rest == ParseSelects(SubSeq(toks, 7, Len(toks))) IN
        [ok |-> rest.ok, parts |-> <<part>> \o rest.parts]
    ELSE [ok |-> FALSE, parts |-> <<>>]
  ELSE [ok |-> FALSE, parts |-> <<>>]

\* The statements of a row-count text; the empty text holds none.
Parse(text) ==
  IF Len(text) = 0 THEN <<>>
  ELSE LET p == ParseSelects(text) IN
    IF p.ok THEN <<[op |-> "counts", parts |-> p.parts]>>
    ELSE <<[op |-> "bad"]>>

TablesQuery == <<[op |-> "tables"]>>
ColumnsQuery(t) == <<[op |-> "columns", t |-> t]>>

\* ---------------------------------------------------------------- program
\* get_connection without @st.cache_resource: every call connects.
get_connection_Uncached(w, fault) ==
  IF fault = "connect" THEN
    [w |-> w, conn |-> NoHandle, raised |-> "IOException"]
  ELSE LET h == w.opened + 1 IN
    [w |-> [w EXCEPT !.cache = h, !.live = @ \cup {h}, !.opened = h,
                     !.fileExists = TRUE,
                     !.db = IF w.fileExists THEN @ ELSE EmptyDb],
     conn |-> h, raised |-> "none"]

\* get_connection (src/app.py:20-29) under st.cache_resource: the cached
\* handle if there is one, else duckdb.connect, which creates the file when
\* it is missing and is cached only when it returns.
get_connection(w, fault) ==
  IF w.cache # NoHandle THEN
    [w |-> w, conn |-> w.cache, raised |-> "none"]
  ELSE IF fault = "connect" THEN
    [w |-> w, conn |-> NoHandle, raised |-> "IOException"]
  ELSE LET h == w.opened + 1 IN
    [w |-> [w EXCEPT !.cache = h, !.live = @ \cup {h}, !.opened = h,
                     !.fileExists = TRUE,
                     !.db = IF w.fileExists THEN @ ELSE EmptyDb],
     conn |-> h, raised |-> "none"]

\* run_query with get_connection() called before the try block.
run_query_ConnectOutsideTry(w, script, fault) ==
  LET g == get_connection(w, fault) IN
    IF g.raised # "none" THEN
      [w |-> g.w, df |-> <<>>, error |-> "none", raised |-> g.raised]
    ELSE LET t == Execute(g.w, g.conn, script) IN
      IF t.raised = "none"
      THEN [w |-> t.w, df |-> t.rows, error |-> "none", raised |-> "none"]
      ELSE [w |-> t.w, df |-> <<>>, error |-> t.raised, raised |-> "none"]

\* The try body of run_query (src/app.py:44).
TryQuery(w, script, fault) ==
  LET g == get_connection(w, fault) IN
    IF g.raised # "none"
    THEN [w |-> g.w, rows |-> <<>>, raised |-> g.raised]
    ELSE Execute(g.w, g.conn, script)

\* run_query (src/app.py:32-48): df is the returned frame, error the
\* exception reported with st.error, raised the exception that leaves it.
run_query(w, script, fault) ==
  LET t == TryQuery(w, script, fault) IN
    IF t.raised = "none" THEN
      [w |-> t.w, df |-> t.rows, error |-> "none", raised |-> "none"]
    ELSE IF IsDuckdbError(t.raised) THEN
      [w |-> t.w, df |-> <<>>, error |-> t.raised, raised |-> "none"]
    ELSE
      [w |-> t.w, df |-> <<>>, error |-> "none", raised |-> t.raised]

\* os.remove("sample.db"): the path is gone; the content stays readable
\* through a handle that is still open.
Remove(w) ==
  [w EXCEPT !.fileExists = FALSE,
            !.db = IF w.live # {} THEN @ ELSE EmptyDb]

\* StepClose without the close() call.
StepClose_NoClose(r, fault) ==
  LET g == get_connection(r.w, fault) IN
    [r EXCEPT !.w = g.w, !.steps = Append(@, "close")]

\* StepRemove that leaves the file in place.
StepRemove_Skip(r, fault) ==
  IF r.raised # "none" THEN r ELSE [r EXCEPT !.steps = Append(@, "remove")]

\* StepRemove without the os.path.exists test.
StepRemove_Unguarded(r, fault) ==
  IF r.raised # "none" THEN r
  ELSE IF ~r.w.fileExists \/ fault = "remove" THEN
    [r EXCEPT !.raised = "OSError", !.steps = Append(@, "remove")]
  ELSE [r EXCEPT !.w = Remove(@), !.steps = Append(@, "remove")]

\* StepImport without the IMPORT DATABASE statement.
StepImport_Skip(r, fault) ==
  IF r.raised # "none" THEN r ELSE [r EXCEPT !.steps = Append(@, "import")]

\* The steps of reset_database.  r carries the process state, the handle
\* bound to conn, the exception that is propagating and the steps reached.
\* src/app.py:55-58
StepClose(r, fault) ==
  LET g == get_connection(r.w, fault) IN
    IF g.raised = "none" THEN
      [r EXCEPT !.w = Close(g.w, g.conn), !.steps = Append(@, "close")]
    ELSE IF IsDuckdbError(g.raised) THEN
      [r EXCEPT !.w = g.w, !.steps = Append(@, "close")]
    ELSE
      [r EXCEPT !.w = g.w, !.raised = g.raised, !.steps = Append(@, "close")]

\* src/app.py:60-61
StepRemove(r, fault) ==
  IF r.raised # "none" THEN r
  ELSE IF ~r.w.fileExists THEN [r EXCEPT !.steps = Append(@, "remove")]
  ELSE IF fault = "remove" THEN
    [r EXCEPT !.raised = "OSError", !.steps = Append(@, "remove")]
  ELSE [r EXCEPT !.w = Remove(@), !.steps = Append(@, "remove")]

\* src/app.py:63
StepClear(r) ==
  IF r.raised # "none" THEN r
  ELSE [r EXCEPT !.w.cache = NoHandle, !.discarded = r.w.cache,
                 !.steps = Append(@, "clear")]

\* src/app.py:64
StepConnect(r, fault) ==
  IF r.raised # "none" THEN r
  ELSE LET g == get_connection(r.w, fault) IN
    [r EXCEPT !.w = g.w, !.conn = g.conn, !.raised = g.raised,
              !.steps = Append(@, "connect")]

\* src/app.py:65
StepImport(r, fault) ==
  IF r.raised # "none" THEN r
  ELSE IF r.conn \notin r.w.live THEN
    [r EXCEPT !.raised = "ConnectionException", !.steps = Append(@, "import")]
  ELSE IF fault = "import" THEN
    [r EXCEPT !.raised = "IOException", !.steps = Append(@, "import")]
  ELSE LET i == ImportDatabase(r.w.db) IN
    [r EXCEPT !.w.db = i.db, !.raised = i.raised,
              !.steps = Append(@, "import")]

\* src/app.py:71
StepSuccess(r) ==
  IF r.raised # "none" THEN r ELSE [r EXCEPT !.success = TRUE]

\* reset_database (src/app.py:50-71).
reset_database(w, fault) ==
  StepSuccess(
    StepImport(
      StepConnect(
        StepClear(
          StepRemove(
            StepClose([w |-> w, conn |-> NoHandle, raised |-> "none",
                       steps |-> <<>>, success |-> FALSE,
                       discarded |-> NoHandle], fault),
            fault)),
        fault),
      fault))

\* ---------------------------------------------------------- observation
ConnStatus(w) ==
  IF w.cache = NoHandle THEN "none"
  ELSE IF w.cache \in w.live THEN "open" ELSE "closed"

\* What a user of the page can observe of the process state.
Obs(w) == [db |-> w.db, file |-> w.fileExists, conn |-> ConnStatus(w),
           live |-> Cardinality(w.live)]

NoCall == [fn |-> "none", fault |-> "none", failed |-> "none",
           raised |-> "none", rows |-> 0, steps |-> <<>>, pre |-> Obs(W),
           cache0 |-> cache, opened0 |-> opened, discarded |-> NoHandle]

\* pre is the process state the call started in; cache0 and opened0 are the
\* memoized handle and the number of handles handed out at that point, and
\* discarded is the handle get_connection.clear() dropped.
QueryCall(q, fault, pre) ==
  [fn |-> "run_query", fault |-> fault, failed |-> q.error,
   raised |-> q.raised, rows |-> Len(q.df), steps |-> <<>>, pre |-> Obs(pre),
   cache0 |-> pre.cache, opened0 |-> pre.opened, discarded |-> NoHandle]

ResetCall(r, fault, pre) ==
  [fn |-> "reset_database", fault |-> fault, failed |-> r.raised,
   raised |-> r.raised, rows |-> 0, steps |-> r.steps, pre |-> Obs(pre),
   cache0 |-> pre.cache, opened0 |-> pre.opened, discarded |-> r.discarded]

\* The kind of call a record of last stands for.
Tag(c) ==
  IF c.fn = "reset_database" /\ c.raised # "none" THEN "reset_raised"
  ELSE c.fn

\* ------------------------------------------------------------ render flow
\* Caption with the singular for n <= 1.
Caption_SingularUpToOne(n) == [n |-> n, word |-> IF n <= 1 THEN "row" ELSE "rows"]

\* f"**{n} {'row' if n==1 else 'rows'}** returned." (src/app.py:179)
Caption(n) == [n |-> n, word |-> IF n = 1 THEN "row" ELSE "rows"]

NoCaption == [n |-> 0, word |-> ""]

Reported(q) == IF q.error = "none" THEN {} ELSE {q.error}

SetWorld(w) ==
  /\ cache' = w.cache
  /\ live' = w.live
  /\ opened' = w.opened
  /\ fileExists' = w.fileExists
  /\ db' = w.db

\* A fresh script run: nothing rendered yet.
ClearPage ==
  /\ result' = <<>>
  /\ caption' = NoCaption
  /\ chart' = "off"
  /\ tables' = <<>>
  /\ SQL_QUERY' = <<>>
  /\ table_counts' = <<>>
  /\ columns' = <<>>
  /\ st_error' = {}
  /\ exc' = "none"

Init ==
  /\ cache = NoHandle
  /\ live = {}
  /\ opened = 0
  /\ fileExists \in BOOLEAN
  /\ db = IF fileExists THEN CanonicalDb ELSE EmptyDb
  /\ pc = "idle"
  /\ user_query = <<Stmt("select", Customers, 0)>>
  /\ admin = FALSE
  /\ forced = FALSE
  /\ result = <<>>
  /\ caption = NoCaption
  /\ chart = "off"
  /\ tables = <<>>
  /\ SQL_QUERY = <<>>
  /\ table_counts = <<>>
  /\ columns = <<>>
  /\ st_error = {}
  /\ exc = "none"
  /\ last = NoCall
  /\ prev = "none"

\* A user interaction starts a script run: the editor holds q, and click
\* tells whether the Reset Database button was pressed.
StartRender(q, click) ==
  /\ pc \in {"idle", "done", "aborted"}
  /\ pc' = "query"
  /\ user_query' = q
  /\ admin' = click
  /\ forced' = FALSE
  /\ ClearPage
  /\ UNCHANGED <<world, last, prev>>

\* df.columns of the frame a text returns: the columns of its last
\* statement.
TableColumns(t) ==
  IF t = Customers THEN <<"customerid", "company">>
  ELSE IF t = Orders THEN <<"orderid", "customername">>
  ELSE <<"id">>

FrameColumns(script) ==
  LET s == script[Len(script)] IN
    IF s.op = "select" THEN TableColumns(s.t)
    ELSE IF s.op = "count" THEN <<"count_star">>
    ELSE IF s.op \in {"insert", "delete"} THEN <<"Count">>
    ELSE <<>>

Range(f) == {f[i] : i \in DOMAIN f}

ChartTypes == {"Line Chart", "Bar Chart", "Scatter Plot", "Area Chart"}

\* except (TypeError, ValueError, KeyError) at src/app.py:111.
IsChartError(e) == e \in {"TypeError", "ValueError", "KeyError"}

\* df.set_index(x_axis)[y_axis]: the index column is no longer a column.
SetIndexSelect(cols, x_axis, y_axis) ==
  IF y_axis \in Range(cols) \ {x_axis} THEN "none" ELSE "KeyError"

\* The try body at src/app.py:102-110.
DrawChart(cols, chart_type, x_axis, y_axis) ==
  IF chart_type = "Scatter Plot" THEN "none"
  ELSE SetIndexSelect(cols, x_axis, y_axis)

\* dynamic_visualization (src/app.py:74-113): chart is what it renders,
\* error the exception it reports with st.error, raised the one leaving it.
dynamic_visualization(df, cols, chart_type, x_axis, y_axis) ==
  IF Len(df) = 0 THEN
    [chart |-> "No data", error |-> "none", raised |-> "none"]
  ELSE LET e == DrawChart(cols, chart_type, x_axis, y_axis) IN
    IF e = "none" THEN
      [chart |-> chart_type, error |-> "none", raised |-> "none"]
    ELSE IF IsChartError(e) THEN
      [chart |-> "error", error |-> e, raised |-> "none"]
    ELSE [chart |-> "error", error |-> "none", raised |-> e]

NoChart == [chart |-> "off", error |-> "none", raised |-> "none"]

\* The values the selectboxes of dynamic_visualization can hold: a chart
\* type and two of the frame's columns.
Selections(cols) ==
  [chart_type : ChartTypes, x_axis : Range(cols), y_axis : Range(cols)]

\* src/app.py:176-184.  visualize is the "Visualize Data" checkbox; the
\* selectboxes are reached only with a frame that has rows.
RunUserQuery(fault, visualize) ==
  /\ pc = "query"
  /\ \E q \in {run_query(W, user_query, fault)} :
     LET cols == IF q.error = "none" /\ q.raised = "none"
                 THEN FrameColumns(user_query) ELSE <<>>
         shown == visualize /\ q.raised = "none"
     IN
       /\ q.w.opened <= MaxHandles
       /\ SetWorld(q.w)
       /\ result' = q.df
       /\ caption' = IF q.raised = "none" THEN Caption(Len(q.df)) ELSE caption
       /\ \E v \in IF ~shown THEN {NoChart}
                   ELSE IF Len(q.df) = 0
                   THEN {dynamic_visualization(q.df, cols, "Line Chart",
                                               "", "")}
                   ELSE {dynamic_visualization(q.df, cols, sel.chart_type,
                                               sel.x_axis, sel.y_axis) :
                           sel \in Selections(cols)} :
            /\ chart' = v.chart
            /\ st_error' = st_error \cup Reported(q) \cup Reported(v)
            /\ exc' = IF q.raised # "none" THEN q.raised ELSE v.raised
            /\ pc' = IF q.raised = "none" /\ v.raised = "none"
                     THEN "tables" ELSE "aborted"
       /\ last' = QueryCall(q, fault, W)
       /\ prev' = Tag(last)
  /\ UNCHANGED <<user_query, admin, forced, tables, SQL_QUERY, table_counts,
                 columns>>

\* src/app.py:187-191
InspectSchema(fault) ==
  /\ pc = "tables"
  /\ LET q == run_query(W, TablesQuery, fault) IN
       /\ q.w.opened <= MaxHandles
       /\ SetWorld(q.w)
       /\ tables' = q.df
       /\ st_error' = st_error \cup Reported(q)
       /\ exc' = q.raised
       /\ pc' = IF q.raised # "none" THEN "aborted"
                ELSE IF Len(q.df) = 0 THEN "autoreset" ELSE "counts"
       /\ last' = QueryCall(q, fault, W)
       /\ prev' = Tag(last)
  /\ UNCHANGED <<user_query, admin, forced, result, caption, chart, SQL_QUERY,
                 table_counts, columns>>

\* AutoReset without st.rerun(): the script run goes on below the check.
AutoReset_NoRerun(fault) ==
  /\ pc = "autoreset"
  /\ LET r == reset_database(W, fault) IN
       /\ r.w.opened <= MaxHandles
       /\ SetWorld(r.w)
       /\ last' = ResetCall(r, fault, W)
       /\ prev' = Tag(last)
       /\ exc' = r.raised
       /\ pc' = IF r.raised # "none" THEN "aborted" ELSE "counts"
  /\ UNCHANGED <<user_query, admin, forced, result, caption, chart, tables,
                 SQL_QUERY, table_counts, columns, st_error>>

\* src/app.py:192-195: reset_database(), then st.rerun() starts the script
\* again with the same editor text.
AutoReset(fault) ==
  /\ pc = "autoreset"
  /\ LET r == reset_database(W, fault) IN
       /\ r.w.opened <= MaxHandles
       /\ SetWorld(r.w)
       /\ last' = ResetCall(r, fault, W)
       /\ prev' = Tag(last)
       /\ IF r.raised # "none"
          THEN /\ pc' = "aborted"
               /\ exc' = r.raised
               /\ UNCHANGED <<admin, forced, result, caption, chart, tables,
                              SQL_QUERY, table_counts, columns, st_error>>
          ELSE /\ pc' = "query"
               /\ forced' = TRUE
               /\ admin' = FALSE
               /\ ClearPage
  /\ UNCHANGED user_query

\* src/app.py:208-217
TableCounts(fault) ==
  /\ pc = "counts"
  /\ LET text == BuildCounts(tables)
         q == run_query(W, Parse(text), fault) IN
       /\ q.w.opened <= MaxHandles
       /\ SetWorld(q.w)
       /\ SQL_QUERY' = text
       /\ table_counts' = q.df
       /\ st_error' = st_error \cup Reported(q)
       /\ exc' = q.raised
       /\ pc' = IF q.raised = "none" THEN "columns" ELSE "aborted"
       /\ last' = QueryCall(q, fault, W)
       /\ prev' = Tag(last)
  /\ UNCHANGED <<user_query, admin, forced, result, caption, chart, tables, columns>>

\* The loop at src/app.py:221-228 over the names left: the process state,
\* the tables whose query returned rows, the errors reported, the exception
\* that left the loop and the last call made.
RECURSIVE ColumnsLoop(_, _, _, _)
ColumnsLoop(acc, names, fault, pre) ==
  IF Len(names) = 0 \/ acc.raised # "none" THEN acc
  ELSE LET q == run_query(acc.w, ColumnsQuery(Head(names)), fault) IN
    ColumnsLoop([w |-> q.w,
                 cols |-> IF Len(q.df) > 0 THEN Append(acc.cols, Head(names))
                          ELSE acc.cols,
                 errors |-> acc.errors \cup Reported(q),
                 raised |-> q.raised,
                 call |-> QueryCall(q, fault, pre)],
                Tail(names), fault, pre)

\* src/app.py:219-228
Columns(fault) ==
  /\ pc = "columns"
  /\ LET c == ColumnsLoop([w |-> W, cols |-> <<>>, errors |-> {},
                           raised |-> "none", call |-> last],
                          tables, fault, W) IN
       /\ c.w.opened <= MaxHandles
       /\ SetWorld(c.w)
       /\ columns' = c.cols
       /\ st_error' = st_error \cup c.errors
       /\ exc' = c.raised
       /\ pc' = IF c.raised = "none" THEN "admin" ELSE "aborted"
       /\ last' = c.call
       /\ prev' = Tag(last)
  /\ UNCHANGED <<user_query, admin, forced, result, caption, chart, tables,
                 SQL_QUERY, table_counts>>

\* src/app.py:561-563
AdminPanel(fault) ==
  /\ pc = "admin"
  /\ IF admin
     THEN LET r == reset_database(W, fault) IN
       /\ r.w.opened <= MaxHandles
       /\ SetWorld(r.w)
       /\ exc' = r.raised
       /\ pc' = IF r.raised = "none" THEN "done" ELSE "aborted"
       /\ last' = ResetCall(r, fault, W)
       /\ prev' = Tag(last)
     ELSE /\ fault = "none"
          /\ pc' = "done"
          /\ UNCHANGED <<world, exc, last, prev>>
  /\ UNCHANGED <<user_query, admin, forced, result, caption, chart, tables,
                 SQL_QUERY, table_counts, columns, st_error>>

\* The environment removes sample.db (the case os.path.exists at
\* src/app.py:60 tests for).
Unlink ==
  /\ fileExists
  /\ SetWorld(Remove(W))
  /\ last' = [NoCall EXCEPT !.fn = "unlink"]
  /\ prev' = Tag(last)
  /\ UNCHANGED page

Next ==
  \/ \E q \in Scripts, click \in BOOLEAN : StartRender(q, click)
  \/ \E fault \in QueryFaults, visualize \in BOOLEAN :
       RunUserQuery(fault, visualize)
  \/ \E fault \in QueryFaults : InspectSchema(fault)
  \/ \E fault \in ResetFaults : AutoReset(fault)
  \/ \E fault \in QueryFaults : TableCounts(fault)
  \/ \E fault \in QueryFaults : Columns(fault)
  \/ \E fault \in ResetFaults : AdminPanel(fault)
  \/ Unlink

Spec == Init /\ [][Next]_vars

\* ------------------------------------------------- the functions, called
\* run_query and reset_database called in any order with any input.
CallRunQuery(script, fault) ==
  /\ LET q == run_query(W, script, fault) IN
       /\ q.w.opened <= MaxHandles
       /\ SetWorld(q.w)
       /\ last' = QueryCall(q, fault, W)
       /\ prev' = Tag(last)
  /\ UNCHANGED page

CallReset(fault) ==
  /\ LET r == reset_database(W, fault) IN
       /\ r.w.opened <= MaxHandles
       /\ SetWorld(r.w)
       /\ last' = ResetCall(r, fault, W)
       /\ prev' = Tag(last)
  /\ UNCHANGED page

NextCalls ==
  \/ \E script \in Scripts, fault \in QueryFaults : CallRunQuery(script, fault)
  \/ \E fault \in ResetFaults : CallReset(fault)
  \/ Unlink

SpecCalls == Init /\ [][NextCalls]_vars

\* ================================================================ claims
ThisRun == pc \notin {"idle", "query"}

\* C1: a failure inside run_query never leaves it: the exception is reported
\* with st.error, the returned frame has zero rows, and the script run goes
\* on to its next step.  Holds whether the cached handle is open, was closed
\* by a reset that raised, or was never opened.
C1_QueryFailureContained ==
  (last.fn = "run_query" /\ ThisRun) =>
    /\ last.raised = "none"
    /\ exc = "none"
    /\ pc # "aborted"
    /\ last.failed # "none" => (last.rows = 0 /\ last.failed \in st_error)

\* The editor's query ran on a handle a failed reset had closed.
C1_Witness ==
  /\ pc = "tables"
  /\ last.fn = "run_query"
  /\ last.failed = "ConnectionException"
  /\ last.pre.conn = "closed"
  /\ Len(result) = 0

\* C2: at most one handle to sample.db is open and not closed, in every
\* state reached by run_query and reset_database calls, resets that raise
\* part-way included.
C2_AtMostOneLiveHandle == Cardinality(live) <= 1

\* A reset completed right after a reset that raised, and one handle is live.
C2_Witness ==
  /\ last.fn = "reset_database"
  /\ last.raised = "none"
  /\ prev = "reset_raised"
  /\ last.pre.conn = "closed"
  /\ Cardinality(live) = 1

\* C3: a reset_database call that completes leaves exactly the backup's
\* tables, a non-empty list, each with exactly the backup's rows.
C3_ResetRestoresCanonical ==
  (last.fn = "reset_database" /\ last.raised = "none") =>
    /\ db = CanonicalDb
    /\ Len(ListTables(db)) > 0
    /\ ListTables(db) = ListTables(CanonicalDb)
    /\ \A t \in Names : CanonicalDb[t].present =>
         ExecStmt(db, Stmt("count", t, 0)).rows
           = <<Cardinality(CanonicalDb[t].rows)>>

\* Row 501 was deleted and a table created before the reset; after it the
\* select returns 501 again and the created table is gone.
C3_Witness ==
  /\ last.fn = "reset_database"
  /\ last.raised = "none"
  /\ last.pre.db[Customers].present
  /\ 501 \notin last.pre.db[Customers].rows
  /\ last.pre.db[MyTable].present
  /\ ExecStmt(db, Stmt("select", Customers, 0)).rows = <<501>>

\* C4: every step of reset_database is reached whatever the step before it
\* did: close, remove, clear, connect, import.
C4_AllStepsReached ==
  last.fn = "reset_database" =>
    last.steps = <<"close", "remove", "clear", "connect", "import">>

CanonicalObs == [db |-> CanonicalDb, file |-> TRUE, conn |-> "open", live |-> 1]

\* C5: a reset_database call made right after a completed one, the
\* environment not failing it, completes and leaves the database content,
\* the file and the connection status as the first call left them: one open
\* cached handle on the backup's content.
C5_ResetIdempotent ==
  (last.fn = "reset_database" /\ last.fault = "none"
     /\ prev = "reset_database") =>
    /\ last.raised = "none"
    /\ Obs(W) = last.pre
    /\ Obs(W) = CanonicalObs

\* Two completed resets in a row.
C5_Witness ==
  /\ last.fn = "reset_database"
  /\ last.fault = "none"
  /\ last.raised = "none"
  /\ prev = "reset_database"
  /\ last.pre = CanonicalObs

\* C6: reset_database called while sample.db is missing, with or without a
\* cached connection, the environment not failing it: the call does not
\* raise, and it ends with the file present and holding the backup's content.
C6_ResetWithoutFile ==
  (last.fn = "reset_database" /\ last.fault = "none" /\ ~last.pre.file) =>
    /\ last.raised = "none"
    /\ fileExists
    /\ db = CanonicalDb

\* The file was missing while a cached connection was open, and the reset
\* completed.
C6_Witness ==
  /\ last.fn = "reset_database"
  /\ last.fault = "none"
  /\ ~last.pre.file
  /\ last.pre.conn = "open"
  /\ last.raised = "none"
  /\ fileExists

SchemaInspected == pc \in {"autoreset", "counts", "columns", "admin", "done"}

\* C7: in the script run forced by an automatic reset, which runs the
\* editor's query again before the listing, the schema inspector observes the
\* restored tables: a non-empty list, so that no further automatic reset
\* follows and the chain of resets and re-renders ends.
C7_RerunSeesRestoredTables ==
  (forced /\ SchemaInspected) => Len(tables) > 0

\* C8: a reset step that fails during a script run does not end the script
\* run: no exception leaves it.
C8_ResetFailureContinues ==
  (last.fn = "reset_database" /\ last.failed # "none") =>
    /\ pc # "aborted"
    /\ exc = "none"

\* C9: the batched row count over the N listed tables returns N rows, one
\* per table in order, each with that table's own count.
C9_BatchedCountsMatch ==
  pc = "columns" =>
    /\ Len(table_counts) = Len(tables)
    /\ \A i \in 1..Len(table_counts) :
         /\ table_counts[i].name = tables[i]
         /\ <<table_counts[i].count>>
              = ExecStmt(db, Stmt("count", tables[i], 0)).rows

\* C10: the caption counts the rows of the result and says "row" exactly
\* when there is one: "0 rows", "1 row", "<n> rows".
C10_CaptionPlural ==
  ThisRun =>
    /\ caption.n = Len(result)
    /\ Len(result) = 0 => caption = [n |-> 0, word |-> "rows"]
    /\ Len(result) = 1 => caption = [n |-> 1, word |-> "row"]
    /\ Len(result) > 1 => caption.word = "rows"
    /\ caption.word = "row" <=> Len(result) = 1

\* The editor's query failed and the caption reads "0 rows".
C10_Witness ==
  /\ pc = "tables"
  /\ last.fn = "run_query"
  /\ last.failed # "none"
  /\ Len(result) = 0
  /\ caption = [n |-> 0, word |-> "rows"]

\* C11: get_connection is memoized.  A run_query call that finds no cached
\* handle opens one and caches it; a call that finds a cached handle uses
\* that handle and opens none; a reset_database that stops before
\* get_connection.clear() keeps it; and the handle cached after the clear is
\* a new one, different from the one dropped and from every handle handed
\* out before the call.
C11_ConnectionMemoized ==
  /\ (last.fn = "run_query" /\ last.cache0 # NoHandle) =>
       (cache = last.cache0 /\ opened = last.opened0)
  /\ (last.fn = "run_query" /\ last.cache0 = NoHandle
        /\ last.fault = "none") =>
       (cache = last.opened0 + 1 /\ cache \in live
          /\ opened = last.opened0 + 1)
  /\ (last.fn = "reset_database" /\ last.cache0 # NoHandle) =>
       IF \E i \in 1..Len(last.steps) : last.steps[i] = "clear"
       THEN last.discarded = last.cache0 /\ cache # last.cache0
       ELSE cache = last.cache0
  /\ (last.fn = "reset_database" /\ last.raised = "none") =>
       /\ cache # NoHandle
       /\ cache # last.discarded
       /\ cache \notin 1..last.opened0
       /\ cache \in live

\* A query reused the cached handle, a completed reset then dropped it, and
\* the handle cached now is another one.
C11_Witness ==
  /\ last.fn = "reset_database"
  /\ last.raised = "none"
  /\ prev = "run_query"
  /\ last.cache0 # NoHandle
  /\ last.discarded = last.cache0
  /\ cache # NoHandle
  /\ cache # last.discarded

\* C12: on a script run whose table listing is empty, the batched row-count
\* text is never built or run and no column query is run: the run ends at
\* the automatic reset, by st.rerun() or by the exception of a failed reset.
\* run_query never gets the empty text an empty listing would produce.
C12_NoCountsOnEmptyListing ==
  /\ Len(tables) = 0 =>
       /\ pc \notin {"counts", "columns", "admin", "done"}
       /\ Len(SQL_QUERY) = 0
       /\ Len(table_counts) = 0
       /\ Len(columns) = 0
  /\ pc \in {"columns", "admin", "done"} => Len(SQL_QUERY) > 0
  /\ "InvalidInputException" \notin st_error

\* The listing was empty, the automatic reset completed and st.rerun()
\* started the script again: no row-count text was built.
C12_Witness ==
  /\ forced
  /\ pc = "query"
  /\ last.fn = "reset_database"
  /\ last.raised = "none"
  /\ Len(SQL_QUERY) = 0
  /\ "InvalidInputException" \notin st_error

\* C13: outside reset_database the handle held by the memoized accessor is
\* open, also after a reset_database call that raised part-way, so run_query
\* never gets a closed handle from get_connection.
C13_CachedHandleOpen ==
  /\ cache # NoHandle => cache \in live
  /\ last.fn = "run_query" => last.failed # "ConnectionException"

====
